---- MODULE Spec2Model ----
(***************************************************************************)
(* Dual KrakenSDR calibration orchestration.                               *)
(*                                                                         *)
(* The repository holds two orchestrators with the same shape:             *)
(*   DualKrakenOptimizer             krakensdr_doa/dual_sdr_optimizer.py   *)
(*   OptimizedDualKrakenCalibration  optimized_dual_kraken_calibration.py  *)
(* One behaviour of the model follows one of the two classes (cls).        *)
(*                                                                         *)
(* Numbers are fixed point: noise floors in units of 0.25 dB, gains in     *)
(* units of 0.005, phases in units of 0.025 rad.  Every measured value is  *)
(* an even number of units, so that (a + b) / 2 is exact.                  *)
(***************************************************************************)
EXTENDS Integers, Sequences, FiniteSets, TLC

VARIABLES
    cls,               \* which class the orchestrator object is
    config,            \* self.config
    cache_file,        \* content of the cache file on disk
    now,               \* time.time()
    ticks,             \* number of clock advances so far
    pc,                \* position of the thread that called run
    thread,            \* per unit: state of the worker running its calibration
    future,            \* DualKrakenOptimizer: per unit, the Future of its task
    result_queue,      \* OptimizedDualKrakenCalibration: per unit, its queue.Queue
    sdr_data,          \* locals sdr1_data / sdr2_data of the collecting method
    calibration_data,  \* local calibration_data of run
    pending,           \* exception propagating out of the ThreadPoolExecutor block
    start_time,        \* time.time() at the start of the run
    result,            \* outcome of the current run
    obs,               \* what the current run did (observation only)
    measured,          \* per unit: what its calibration measured (observation only)
    stored,            \* the run data last written completely to the cache file,
                       \* with the time and the configuration of the write
                       \* (observation only)
    runs,              \* number of runs started
    sdr_configs,       \* self.config["sdr_configs"]: per unit, its sample parameters
    called,            \* frequency planning: the method called
    freq_config,       \* frequency planning: frequency_range and frequency_step
    signal_data,       \* frequency planning: the samples handed to the method
    plan_pc,           \* frequency planning: position in the method
    current_freq,      \* local current_freq of _reduce_frequency_points
    frequencies,       \* the list being built, then the outcome of the method
    unit_pc,           \* generated script: position in _calibrate_single_sdr
    unit_config,       \* generated script: self.config
    unit_sdr_id,       \* generated script: argument sdr_id
    unit_frequencies,  \* generated script: local frequencies
    unit_index,        \* generated script: position of the for loop in frequencies
    unit_calibration_data,  \* generated script: local calibration_data
    unit_return,       \* generated script: outcome of _calibrate_single_sdr
    unit_failed,       \* frequencies whose measurement raised (observation only)
    is_running,        \* RealTimeCalibrationUpdater: self.is_running
    update_callbacks,  \* RealTimeCalibrationUpdater: number of callbacks added
    updater_calibration_data,  \* RealTimeCalibrationUpdater: self.calibration_data
    update_thread,     \* per thread started: position in update_loop
    started,           \* number of update threads started so far
    begun_stopped,     \* per thread: its calibration_func call in progress began
                       \* while is_running was false (observation only)
    delivered_stopped  \* per thread: updates delivered since the last stop while
                       \* is_running was false (observation only)

orchestrator_vars ==
    <<cls, config, cache_file, now, ticks, pc, thread, future, result_queue,
      sdr_data, calibration_data, pending, start_time, result, obs,
      measured, stored, runs, sdr_configs>>

planner_vars ==
    <<called, freq_config, signal_data, plan_pc, current_freq, frequencies>>

unit_vars ==
    <<unit_pc, unit_config, unit_sdr_id, unit_frequencies, unit_index,
      unit_calibration_data, unit_return, unit_failed>>

updater_vars ==
    <<is_running, update_callbacks, updater_calibration_data, update_thread,
      started, begun_stopped, delivered_stopped>>

vars == <<orchestrator_vars, planner_vars, unit_vars, updater_vars>>

----------------------------------------------------------------------------
(* Bounds of the model *)

MaxRuns == 2
MaxTicks == 1
StartTime == 7200

(* Program constants *)

SecondsPerHour == 3600
CacheMaxAge == 3600
NumAntennas == 4

Units == {"sdr1", "sdr2"}
Dual == "DualKrakenOptimizer"
Optimized == "OptimizedDualKrakenCalibration"

None == [kind |-> "None"]

----------------------------------------------------------------------------
(* Python values *)

\* A sequence-like value: a Python list, a numpy array, or the str() of one.
Arr(kind, v) == [kind |-> kind, v |-> v]

\* a + b of Python: numbers add; list + list concatenates; an ndarray operand
\* makes the sum element-wise.
PyAdd(a, b) ==
    IF a.kind = "list" /\ b.kind = "list"
    THEN Arr("list", a.v \o b.v)
    ELSE Arr("ndarray", [i \in 1..Len(a.v) |-> a.v[i] + b.v[i]])

\* x / 2 of Python: a list has no division (TypeError); an ndarray divides
\* element-wise.
PyHalf(x) ==
    IF x.kind = "list"
    THEN [kind |-> "TypeError"]
    ELSE Arr("ndarray", [i \in 1..Len(x.v) |-> x.v[i] \div 2])

\* (a + b) / 2 on floats
Mean(a, b) == (a + b) \div 2

\* json.dump(..., default=str) followed by json.load: lists, numbers, strings
\* and dicts come back as they were, a numpy array comes back as its str().
JsonArr(a) == IF a.kind = "ndarray" THEN Arr("str", a.v) ELSE a

----------------------------------------------------------------------------
(* What a unit calibration can measure *)

\* Noise floor, antenna gains and antenna phases of one measurement.
Profiles ==
    { [noise_floor |-> -320, gains |-> <<200, 190, 210, 196>>, phases |-> <<0, 4, -4, 2>>],
      [noise_floor |-> -318, gains |-> <<204, 194, 206, 200>>, phases |-> <<2, 0, 4, -2>>] }

Spectrum == <<10, 8, 6, 4, 2>>                 \* [1.0, 0.8, 0.6, 0.4, 0.2]

\* str(e) of the exception a failing unit calibration raises
Reason(u) == <<"calibration of", u, "failed">>

\* An exception: its type and the unit failure reasons it carries.
Exception(type, reasons) == [type |-> type, reasons |-> reasons]
UnitError(u) == Exception("Exception", {Reason(u)})

\* A calibration function handed to DualKrakenOptimizer returns a dict like
\* the ones of example_integration: with or without "noise_data", the noise
\* spectrum a Python list (as in the example) or a numpy array.
DualUnitData(u, kind, prof) ==
    [sdr_id |-> u, status |-> "calibrated",
     noise_data |-> [noise_floor |-> prof.noise_floor,
                     noise_spectrum |-> Arr(kind, Spectrum)],
     antenna_data |-> [gains |-> Arr("list", prof.gains),
                       phases |-> Arr("list", prof.phases)]]

DualUnitDataNoNoise(u, prof) ==
    [sdr_id |-> u, status |-> "calibrated",
     antenna_data |-> [gains |-> Arr("list", prof.gains),
                       phases |-> Arr("list", prof.phases)]]

\* What unit u measures: as in calibrate_sdr1 / calibrate_sdr2 of
\* example_integration, noise floor -80.0 for sdr1 and -79.5 for sdr2.
ExampleProfile(u) ==
    CHOOSE p \in Profiles : p.noise_floor = (IF u = "sdr1" THEN -320 ELSE -318)

DualUnitResults(u) ==
    { DualUnitData(u, "list", ExampleProfile(u)) }
    \cup { DualUnitData(u, "ndarray", ExampleProfile(u)) }
    \cup { DualUnitDataNoNoise(u, ExampleProfile(u)) }

\* The matrix np.random.normal(0, 0.1, (n, n)): entries carry coefficient 0,
\* i.e. they are not derived from a gain and a phase.
RawMatrix ==
    Arr("ndarray", [i \in 1..NumAntennas |-> [j \in 1..NumAntennas |-> <<0, 0, 0>>]])

_simulate_sdr_calibration(prof, t) ==
    [antenna_gains |-> Arr("ndarray", prof.gains),
     phase_offsets |-> Arr("ndarray", prof.phases),
     frequency_response |-> Arr("ndarray", <<0>>),
     noise_floor |-> prof.noise_floor,
     calibration_matrix |-> RawMatrix,
     timestamp |-> t]

----------------------------------------------------------------------------
(* DualKrakenOptimizer: fusion *)

Ok(v) == [kind |-> "ok", value |-> v]
Raise(e) == [kind |-> "raise", error |-> e]

HasKey(d, k) == k \in DOMAIN d

SharedUnit(d, shared_noise) ==
    [sdr_id |-> d.sdr_id, status |-> d.status,
     noise_data |-> shared_noise,
     antenna_data |-> d.antenna_data,
     shared_calibration |-> TRUE]

\* Variant for comparison: the noise floor of sdr1 is taken as the shared one.
_apply_shared_calibration_first_unit(cd) ==
    LET sdr1_data == cd.sdr1
        sdr2_data == cd.sdr2
    IN  IF HasKey(sdr1_data, "noise_data") /\ HasKey(sdr2_data, "noise_data")
        THEN LET floor == sdr1_data.noise_data.noise_floor
                 spectrum == PyHalf(PyAdd(sdr1_data.noise_data.noise_spectrum,
                                          sdr2_data.noise_data.noise_spectrum))
             IN  IF spectrum.kind = "TypeError"
                 THEN Raise(Exception("TypeError", {}))
                 ELSE LET shared_noise == [noise_floor |-> floor,
                                           noise_spectrum |-> spectrum]
                      IN  Ok([cd EXCEPT !.sdr1 = SharedUnit(sdr1_data, shared_noise),
                                        !.sdr2 = SharedUnit(sdr2_data, shared_noise)])
        ELSE Ok(cd)

_apply_shared_calibration(cd) ==
    LET sdr1_data == cd.sdr1
        sdr2_data == cd.sdr2
    IN  IF HasKey(sdr1_data, "noise_data") /\ HasKey(sdr2_data, "noise_data")
        THEN LET floor == Mean(sdr1_data.noise_data.noise_floor,
                               sdr2_data.noise_data.noise_floor)
                 spectrum == PyHalf(PyAdd(sdr1_data.noise_data.noise_spectrum,
                                          sdr2_data.noise_data.noise_spectrum))
             IN  IF spectrum.kind = "TypeError"
                 THEN Raise(Exception("TypeError", {}))
                 ELSE LET shared_noise == [noise_floor |-> floor,
                                           noise_spectrum |-> spectrum]
                      IN  Ok([cd EXCEPT !.sdr1 = SharedUnit(sdr1_data, shared_noise),
                                        !.sdr2 = SharedUnit(sdr2_data, shared_noise)])
        ELSE Ok(cd)

----------------------------------------------------------------------------
(* OptimizedDualKrakenCalibration: fusion *)

CrossCoupling == 1          \* 0.1, in tenths
SelfCoupling == 10          \* 1.0, in tenths

_precompute_calibration_matrix(d) ==
    LET gains == d.antenna_gains.v
        phases == d.phase_offsets.v
        num_antennas == Len(gains)
    IN  Arr("ndarray",
            [i \in 1..num_antennas |->
                [j \in 1..num_antennas |->
                    IF i = j THEN <<SelfCoupling, gains[i], phases[i]>>
                             ELSE <<CrossCoupling, gains[i], phases[i]>>]])

\* Variant for comparison: the gains are left out of the averaging.
optimize_calibration_matrices_keep_gains(cfg, cd) ==
    IF ~cfg.shared_calibration_data
    THEN Ok(cd)
    ELSE IF ~HasKey(cd.sdr1, "calibration_data") \/ ~HasKey(cd.sdr2, "calibration_data")
    THEN Raise(Exception("KeyError", {}))
    ELSE
    LET sdr1_data == cd.sdr1.calibration_data
        sdr2_data == cd.sdr2.calibration_data
        shared_phase_offsets ==
            PyHalf(PyAdd(sdr1_data.phase_offsets, sdr2_data.phase_offsets))
        shared_noise_floor == Mean(sdr1_data.noise_floor, sdr2_data.noise_floor)
        Shared(d) == [d EXCEPT !.phase_offsets = shared_phase_offsets,
                               !.noise_floor = shared_noise_floor]
        Matrices(d) ==
            IF cfg.precompute_matrices
            THEN [d EXCEPT !.calibration_matrix = _precompute_calibration_matrix(d)]
            ELSE d
    IN  Ok([cd EXCEPT !.sdr1.calibration_data = Matrices(Shared(sdr1_data)),
                      !.sdr2.calibration_data = Matrices(Shared(sdr2_data))])

\* Variant for comparison: the shared_calibration_data flag is not consulted.
optimize_calibration_matrices_always_shared(cfg, cd) ==
    IF ~HasKey(cd.sdr1, "calibration_data") \/ ~HasKey(cd.sdr2, "calibration_data")
    THEN Raise(Exception("KeyError", {}))
    ELSE
    LET sdr1_data == cd.sdr1.calibration_data
        sdr2_data == cd.sdr2.calibration_data
        shared_gains == PyHalf(PyAdd(sdr1_data.antenna_gains, sdr2_data.antenna_gains))
        shared_phase_offsets ==
            PyHalf(PyAdd(sdr1_data.phase_offsets, sdr2_data.phase_offsets))
        shared_noise_floor == Mean(sdr1_data.noise_floor, sdr2_data.noise_floor)
        Shared(d) == [d EXCEPT !.antenna_gains = shared_gains,
                               !.phase_offsets = shared_phase_offsets,
                               !.noise_floor = shared_noise_floor]
        Matrices(d) ==
            IF cfg.precompute_matrices
            THEN [d EXCEPT !.calibration_matrix = _precompute_calibration_matrix(d)]
            ELSE d
    IN  Ok([cd EXCEPT !.sdr1.calibration_data = Matrices(Shared(sdr1_data)),
                      !.sdr2.calibration_data = Matrices(Shared(sdr2_data))])

optimize_calibration_matrices(cfg, cd) ==
    IF ~cfg.shared_calibration_data
    THEN Ok(cd)
    ELSE IF ~HasKey(cd.sdr1, "calibration_data") \/ ~HasKey(cd.sdr2, "calibration_data")
    THEN Raise(Exception("KeyError", {}))
    ELSE
    LET sdr1_data == cd.sdr1.calibration_data
        sdr2_data == cd.sdr2.calibration_data
        shared_gains == PyHalf(PyAdd(sdr1_data.antenna_gains, sdr2_data.antenna_gains))
        shared_phase_offsets ==
            PyHalf(PyAdd(sdr1_data.phase_offsets, sdr2_data.phase_offsets))
        shared_noise_floor == Mean(sdr1_data.noise_floor, sdr2_data.noise_floor)
        Shared(d) == [d EXCEPT !.antenna_gains = shared_gains,
                               !.phase_offsets = shared_phase_offsets,
                               !.noise_floor = shared_noise_floor]
        Matrices(d) ==
            IF cfg.precompute_matrices
            THEN [d EXCEPT !.calibration_matrix = _precompute_calibration_matrix(d)]
            ELSE d
    IN  Ok([cd EXCEPT !.sdr1.calibration_data = Matrices(Shared(sdr1_data)),
                      !.sdr2.calibration_data = Matrices(Shared(sdr2_data))])

----------------------------------------------------------------------------
(* The cache file *)

Absent == [state |-> "absent"]
\* opened with 'w' and not (completely) written: json.load raises on it
Partial == [state |-> "partial"]
Json(d) == [state |-> "json", data |-> d]

\* dict.get(k, default)
Get(d, k, default) == IF HasKey(d, k) THEN d[k] ELSE default

JsonDualUnit(d) ==
    LET a == [d EXCEPT !.antenna_data.gains = JsonArr(@),
                       !.antenna_data.phases = JsonArr(@)]
    IN  IF HasKey(d, "noise_data")
        THEN [a EXCEPT !.noise_data.noise_spectrum = JsonArr(@)]
        ELSE a

JsonOptimizedUnit(r) ==
    IF HasKey(r, "calibration_data")
    THEN [r EXCEPT !.calibration_data.antenna_gains = JsonArr(@),
                   !.calibration_data.phase_offsets = JsonArr(@),
                   !.calibration_data.frequency_response = JsonArr(@),
                   !.calibration_data.calibration_matrix = JsonArr(@)]
    ELSE r

\* Variant for comparison: the age test admits a record aged exactly max_age.
check_calibration_cache_inclusive(cfg, file, t) ==
    IF ~cfg.cache_enabled THEN None
    ELSE IF file.state = "absent" THEN None
    ELSE IF file.state # "json" THEN None
    ELSE LET cache_age == t - Get(file.data, "timestamp", 0)
             max_age == cfg.cache_validity_hours * SecondsPerHour
         IN  IF cache_age <= max_age THEN file.data ELSE None

\* Variant for comparison: a record without a timestamp counts as written now.
check_calibration_cache_default_now(cfg, file, t) ==
    IF ~cfg.cache_enabled THEN None
    ELSE IF file.state = "absent" THEN None
    ELSE IF file.state # "json" THEN None
    ELSE LET cache_age == t - Get(file.data, "timestamp", t)
             max_age == cfg.cache_validity_hours * SecondsPerHour
         IN  IF cache_age < max_age THEN file.data ELSE None

\* DualKrakenOptimizer.check_calibration_cache
check_calibration_cache(cfg, file, t) ==
    IF ~cfg.cache_enabled THEN None
    ELSE IF file.state = "absent" THEN None
    ELSE IF file.state # "json" THEN None
    ELSE LET cache_age == t - Get(file.data, "timestamp", 0)
             max_age == cfg.cache_validity_hours * SecondsPerHour
         IN  IF cache_age < max_age THEN file.data ELSE None

\* The record DualKrakenOptimizer.save_calibration_cache dumps, as json.load
\* reads it back.
DualCacheData(cfg, cd, t) ==
    [calibration_data |-> [cd EXCEPT !.sdr1 = JsonDualUnit(@),
                                     !.sdr2 = JsonDualUnit(@)],
     timestamp |-> t,
     config |-> cfg]

\* OptimizedDualKrakenCalibration.load_calibration_cache
load_calibration_cache(file, t) ==
    IF file.state = "absent" THEN None
    ELSE IF file.state # "json" THEN None
    ELSE LET cache_age == t - Get(file.data, "timestamp", 0)
         IN  IF cache_age < CacheMaxAge THEN file.data ELSE None

\* What OptimizedDualKrakenCalibration.save_calibration_cache dumps, as
\* json.load reads it back: the calibration data itself.
OptimizedCacheData(cd) ==
    [cd EXCEPT !.sdr1 = JsonOptimizedUnit(@), !.sdr2 = JsonOptimizedUnit(@)]

----------------------------------------------------------------------------
(* Configurations *)

FrequencySteps == {5, 1}                       \* MHz

DualConfigs ==
    [cache_enabled : BOOLEAN, cache_validity_hours : {1},
     parallel_calibration : BOOLEAN, common_noise_source : BOOLEAN,
     frequency_step : {5}]

OptimizedConfigs ==
    [use_cached_calibration : BOOLEAN, parallel_calibration : BOOLEAN,
     shared_calibration_data : BOOLEAN, precompute_matrices : BOOLEAN,
     adaptive_sample_count : BOOLEAN, frequency_step : {5}]

\* config["sdr_configs"][sdr_id] of load_config: 8192 samples, 1.0 s (in
\* tenths of a second)
DefaultSamples == 8192
DefaultDuration == 10

DefaultSdrConfigs ==
    [u \in Units |-> [calibration_samples |-> DefaultSamples,
                      calibration_duration |-> DefaultDuration]]

\* min(4096, ...) and min(0.5, ...) of optimize_sample_parameters
AdaptiveSamples == 4096
AdaptiveDuration == 5

Min(a, b) == IF a < b THEN a ELSE b

\* optimize_sample_parameters: the dict it is handed is the unit's entry of
\* self.config, and it assigns to that dict.
optimize_sample_parameters(cfg, sdr_config) ==
    IF cfg.adaptive_sample_count
    THEN [sdr_config EXCEPT
            !.calibration_samples = Min(AdaptiveSamples, @),
            !.calibration_duration = Min(AdaptiveDuration, @)]
    ELSE sdr_config

\* load_config of dual_sdr_optimizer.py: the defaults
DefaultDualConfig ==
    [cache_enabled |-> TRUE, cache_validity_hours |-> 1,
     parallel_calibration |-> TRUE, common_noise_source |-> TRUE,
     frequency_step |-> 5]

\* A record an earlier DualKrakenOptimizer process left in the cache file.
EarlierPayload ==
        [sdr1 |-> DualUnitDataNoNoise("sdr1", ExampleProfile("sdr1")),
         sdr2 |-> DualUnitDataNoNoise("sdr2", ExampleProfile("sdr2")),
         calibration_method |-> "parallel",
         optimization_applied |-> TRUE]

\* A cache file whose record has no "timestamp" (written by another tool or
\* edited by hand).
UntimedRecord ==
    [calibration_data |-> EarlierPayload, config |-> DefaultDualConfig]

----------------------------------------------------------------------------
(* Outcome of a run, and what a run did *)

Returned(v) == [kind |-> "returned", value |-> v]
Raised(e) == [kind |-> "raised", error |-> e]

NoObs == [hit |-> FALSE,                        \* the cache lookup hit
          calls |-> [u \in Units |-> 0],        \* unit calibrations invoked
          fused |-> FALSE,                      \* the fusion method was called
          writes |-> 0,                         \* cache file opened for writing
          stored |-> FALSE,                     \* a record was written completely
          write_failed |-> FALSE]               \* open or json.dump of the write raised

Stored(v, t, cfg, n) == [kind |-> "stored", value |-> v, at |-> t, config |-> cfg, run |-> n]

Idle == [u \in Units |-> "idle"]
Nothing == [u \in Units |-> None]

\* Beginning of a run: the locals of the previous run are gone.
BeginRun ==
    /\ pc \in {"idle", "done"}
    /\ runs < MaxRuns
    /\ runs' = runs + 1
    /\ start_time' = now
    /\ future' = Nothing
    /\ result_queue' = [u \in Units |-> <<>>]
    /\ sdr_data' = Nothing
    /\ measured' = Nothing
    /\ pending' = None
    /\ UNCHANGED <<planner_vars, unit_vars, updater_vars,
                   sdr_configs, cls, config, now, ticks, stored>>

\* No frequency planning method has been called.
PlannerIdle ==
    /\ called = "none"
    /\ freq_config = [frequency_range |-> <<50, 200>>, frequency_step |-> 5]
    /\ signal_data = <<>>
    /\ plan_pc = "idle"
    /\ current_freq = 0
    /\ frequencies = None

\* The generated script's _calibrate_single_sdr has not been called.
UnitIdle ==
    /\ unit_pc = "idle"
    /\ unit_config = [skip_clock_calibration |-> TRUE, frequency_step |-> 5]
    /\ unit_sdr_id = "SDR1"
    /\ unit_frequencies = <<>>
    /\ unit_index = 0
    /\ unit_calibration_data = <<>>
    /\ unit_return = None
    /\ unit_failed = {}

\* RealTimeCalibrationUpdater.__init__, and no thread started
UpdaterIdle ==
    /\ is_running = FALSE
    /\ update_callbacks = 0
    /\ updater_calibration_data = None
    /\ update_thread = <<>>
    /\ started = 0
    /\ begun_stopped = <<>>
    /\ delivered_stopped = <<>>

Init ==
    /\ PlannerIdle
    /\ UnitIdle
    /\ UpdaterIdle
    /\ sdr_configs = DefaultSdrConfigs
    /\ cls \in {Dual, Optimized}
    /\ config \in IF cls = Dual THEN DualConfigs ELSE OptimizedConfigs
    /\ \/ /\ cache_file = Absent
          /\ stored = None
       \/ /\ cache_file = Json(DualCacheData(DefaultDualConfig, EarlierPayload, StartTime))
          /\ stored = Stored(EarlierPayload, StartTime, DefaultDualConfig, 0)
       \/ /\ cls = Dual
          /\ cache_file = Json(UntimedRecord)
          /\ stored = None
    /\ now = StartTime
    /\ ticks = 0
    /\ pc = "idle"
    /\ thread = Idle
    /\ future = Nothing
    /\ result_queue = [u \in Units |-> <<>>]
    /\ sdr_data = Nothing
    /\ calibration_data = None
    /\ pending = None
    /\ start_time = StartTime
    /\ result = None
    /\ obs = NoObs
    /\ measured = Nothing
    /\ runs = 0

----------------------------------------------------------------------------
(* DualKrakenOptimizer.calibrate_dual_sdr_optimized *)

\* Variant for comparison: the `return` of line 179 is lost, the run goes on after a hit.
calibrate_dual_sdr_optimized_no_return ==
    /\ cls = Dual
    /\ BeginRun
    /\ LET cached_data == check_calibration_cache(config, cache_file, now)
       IN  /\ result' = None
           /\ pc' = "result1"
           /\ calibration_data' = None
           /\ thread' = IF config.parallel_calibration
                        THEN [u \in Units |-> "running"]
                        ELSE [Idle EXCEPT !["sdr1"] = "running"]
           /\ obs' = [NoObs EXCEPT
                        !.hit = (cached_data # None),
                        !.calls = [u \in Units |->
                                     IF config.parallel_calibration \/ u = "sdr1"
                                     THEN 1 ELSE 0]]
    /\ UNCHANGED cache_file

\* Lines 173-188: the cache check, then the dispatch of the unit calibrations.
\* In parallel mode both tasks are submitted to the two workers; in sequential
\* mode sdr1_func is called first.
calibrate_dual_sdr_optimized ==
    /\ cls = Dual
    /\ BeginRun
    /\ LET cached_data == check_calibration_cache(config, cache_file, now)
       IN  IF cached_data # None
           THEN /\ result' = IF HasKey(cached_data, "calibration_data")
                             THEN Returned(cached_data.calibration_data)
                             ELSE Raised(Exception("KeyError", {}))
                /\ pc' = "done"
                /\ obs' = [NoObs EXCEPT !.hit = TRUE]
                /\ thread' = Idle
                /\ calibration_data' = None
           ELSE /\ result' = None
                /\ pc' = "result1"
                /\ calibration_data' = None
                /\ IF config.parallel_calibration
                   THEN /\ thread' = [u \in Units |-> "running"]
                        /\ obs' = [NoObs EXCEPT !.calls = [u \in Units |-> 1]]
                   ELSE /\ thread' = [Idle EXCEPT !["sdr1"] = "running"]
                        /\ obs' = [NoObs EXCEPT !.calls["sdr1"] = 1]
    /\ UNCHANGED cache_file

\* The calibration function of unit u, supplied by the caller: it returns its
\* data or raises.
sdr_calibrate_func(u) ==
    /\ cls = Dual
    /\ thread[u] = "running"
    /\ \E outcome \in {Ok(d) : d \in DualUnitResults(u)} \cup {Raise(UnitError(u))} :
          /\ future' = [future EXCEPT ![u] = outcome]
          /\ measured' = [measured EXCEPT ![u] = outcome]
    /\ thread' = [thread EXCEPT ![u] = "done"]
    /\ UNCHANGED <<planner_vars, unit_vars, updater_vars,
                   sdr_configs, cls, config, cache_file, now, ticks, pc, result_queue, sdr_data,
                   calibration_data, pending, start_time, result, obs, stored, runs>>

\* _calibrate_parallel lines 215-223 / _calibrate_sequential lines 229-237:
\* take the result of sdr1, then of sdr2; an exception of the unit's function
\* propagates.
future_result(u) ==
    /\ cls = Dual
    /\ pc = (IF u = "sdr1" THEN "result1" ELSE "result2")
    /\ thread[u] = "done"
    /\ IF future[u].kind = "ok"
       THEN /\ sdr_data' = [sdr_data EXCEPT ![u] = future[u].value]
            /\ pending' = pending
            /\ IF u = "sdr1"
               THEN /\ pc' = "result2"
                    /\ calibration_data' = calibration_data
                    /\ IF config.parallel_calibration
                       THEN UNCHANGED <<thread, obs>>
                       ELSE /\ thread' = [thread EXCEPT !["sdr2"] = "running"]
                            /\ obs' = [obs EXCEPT !.calls["sdr2"] = 1]
               ELSE /\ pc' = "fuse"
                    /\ calibration_data' =
                          [sdr1 |-> sdr_data["sdr1"], sdr2 |-> future[u].value,
                           calibration_method |->
                               IF config.parallel_calibration THEN "parallel"
                                                              ELSE "sequential",
                           optimization_applied |-> TRUE]
                    /\ UNCHANGED <<thread, obs>>
       ELSE /\ pending' = future[u].error
            /\ pc' = "unwind"
            /\ UNCHANGED <<sdr_data, calibration_data, thread, obs>>
    /\ UNCHANGED <<planner_vars, unit_vars, updater_vars,
                   sdr_configs, cls, config, cache_file, now, ticks, future, result_queue,
                   start_time, result, measured, stored, runs>>

\* The exception leaves the `with ThreadPoolExecutor` block: shutdown(wait=True)
\* waits for the tasks still running, then the exception leaves run.
executor_exit ==
    /\ cls = Dual
    /\ pc = "unwind"
    /\ \A u \in Units : thread[u] # "running"
    /\ result' = Raised(pending)
    /\ pc' = "done"
    /\ UNCHANGED <<planner_vars, unit_vars, updater_vars,
                   sdr_configs, cls, config, cache_file, now, ticks, thread, future, result_queue,
                   sdr_data, calibration_data, pending, start_time, obs, measured,
                   stored, runs>>

\* Lines 190-192
apply_shared_calibration ==
    /\ cls = Dual
    /\ pc = "fuse"
    /\ IF config.common_noise_source
       THEN LET r == _apply_shared_calibration(calibration_data)
            IN  /\ obs' = [obs EXCEPT !.fused = TRUE]
                /\ IF r.kind = "ok"
                   THEN /\ calibration_data' = r.value
                        /\ pc' = "save"
                        /\ result' = result
                   ELSE /\ calibration_data' = calibration_data
                        /\ pc' = "done"
                        /\ result' = Raised(r.error)
       ELSE /\ pc' = "save"
            /\ UNCHANGED <<obs, calibration_data, result>>
    /\ UNCHANGED <<planner_vars, unit_vars, updater_vars,
                   sdr_configs, cls, config, cache_file, now, ticks, thread, future, result_queue,
                   sdr_data, pending, start_time, measured, stored, runs>>

\* save_calibration_cache lines 143-154: nothing when the cache is disabled;
\* else open(cache_file, 'w'), which truncates the file.  An error is logged
\* and the run returns its data (lines 159-160, 197-203).
dual_save_open ==
    /\ cls = Dual
    /\ pc = "save"
    /\ IF ~config.cache_enabled
       THEN /\ pc' = "done"
            /\ result' = Returned(calibration_data)
            /\ UNCHANGED <<cache_file, obs>>
       ELSE \E io \in {"ok", "OSError"} :
              IF io = "ok"
              THEN /\ cache_file' = Partial
                   /\ obs' = [obs EXCEPT !.writes = @ + 1]
                   /\ pc' = "dump"
                   /\ result' = result
              ELSE /\ pc' = "done"
                   /\ result' = Returned(calibration_data)
                   /\ obs' = [obs EXCEPT !.write_failed = TRUE]
                   /\ UNCHANGED cache_file
    /\ UNCHANGED <<planner_vars, unit_vars, updater_vars,
                   sdr_configs, cls, config, now, ticks, thread, future, result_queue, sdr_data,
                   calibration_data, pending, start_time, measured, stored, runs>>

\* save_calibration_cache lines 155-160: json.dump writes the record, or fails
\* part-way; either way the run returns its data.
dual_save_dump ==
    /\ cls = Dual
    /\ pc = "dump"
    /\ \E io \in {"ok", "OSError"} :
          IF io = "ok"
          THEN /\ cache_file' = Json(DualCacheData(config, calibration_data, now))
               /\ obs' = [obs EXCEPT !.stored = TRUE]
               /\ stored' = Stored(calibration_data, now, config, runs)
          ELSE /\ obs' = [obs EXCEPT !.write_failed = TRUE]
               /\ UNCHANGED <<cache_file, stored>>
    /\ pc' = "done"
    /\ result' = Returned(calibration_data)
    /\ UNCHANGED <<planner_vars, unit_vars, updater_vars,
                   sdr_configs, cls, config, now, ticks, thread, future, result_queue, sdr_data,
                   calibration_data, pending, start_time, measured, runs>>

----------------------------------------------------------------------------
(* OptimizedDualKrakenCalibration.run_optimized_calibration *)

\* Lines 348-361: the cache check; then either collect_calibration_data_parallel
\* starts both threads (lines 127-144) or _collect_calibration_data_sequential
\* calls _calibrate_single_sdr for sdr1 (lines 378-383).
run_optimized_calibration ==
    /\ cls = Optimized
    /\ BeginRun
    /\ LET cached_data == IF config.use_cached_calibration
                          THEN load_calibration_cache(cache_file, now)
                          ELSE None
       IN  IF cached_data # None
           THEN /\ result' = Returned(cached_data)
                /\ pc' = "done"
                /\ obs' = [NoObs EXCEPT !.hit = TRUE]
                /\ thread' = Idle
           ELSE /\ result' = None
                /\ IF config.parallel_calibration
                   THEN /\ pc' = "join"
                        /\ thread' = [u \in Units |-> "running"]
                        /\ obs' = [NoObs EXCEPT !.calls = [u \in Units |-> 1]]
                   ELSE /\ pc' = "seq1"
                        /\ thread' = [Idle EXCEPT !["sdr1"] = "running"]
                        /\ obs' = [NoObs EXCEPT !.calls["sdr1"] = 1]
    /\ calibration_data' = None
    /\ UNCHANGED cache_file

\* Variant for comparison: a calibration that raises puts nothing on the queue.
_calibrate_single_sdr_no_error_record(u) ==
    /\ cls = Optimized
    /\ thread[u] = "running"
    /\ sdr_configs' = [sdr_configs EXCEPT ![u] = optimize_sample_parameters(config, @)]
    /\ \E outcome \in
            {Ok(_simulate_sdr_calibration(ExampleProfile(u), now)),
             Raise(UnitError(u))} :
          /\ measured' = [measured EXCEPT ![u] = outcome]
          /\ result_queue' =
                [result_queue EXCEPT ![u] =
                    IF outcome.kind = "ok"
                    THEN Append(@, [sdr_id |-> u, calibration_data |-> outcome.value,
                                    calibration_time |-> now - start_time,
                                    status |-> "success"])
                    ELSE @]
    /\ thread' = [thread EXCEPT ![u] = "done"]
    /\ UNCHANGED <<planner_vars, unit_vars, updater_vars,
                   cls, config, cache_file, now, ticks, pc, future, sdr_data,
                   calibration_data, pending, start_time, result, obs, stored, runs>>

\* _calibrate_single_sdr: optimize_sample_parameters is applied to the unit's
\* entry of self.config; then one record is put on the unit's queue, a success
\* record with the measured data, or an error record when the calibration
\* raised.
_calibrate_single_sdr(u) ==
    /\ cls = Optimized
    /\ thread[u] = "running"
    /\ sdr_configs' = [sdr_configs EXCEPT ![u] = optimize_sample_parameters(config, @)]
    /\ \E outcome \in
            {Ok(_simulate_sdr_calibration(ExampleProfile(u), now)),
             Raise(UnitError(u))} :
          /\ measured' = [measured EXCEPT ![u] = outcome]
          /\ result_queue' =
                [result_queue EXCEPT ![u] =
                    Append(@, IF outcome.kind = "ok"
                              THEN [sdr_id |-> u,
                                    calibration_data |-> outcome.value,
                                    calibration_time |-> now - start_time,
                                    status |-> "success"]
                              ELSE [sdr_id |-> u,
                                    error |-> Reason(u),
                                    status |-> "error"])]
    /\ thread' = [thread EXCEPT ![u] = "done"]
    /\ UNCHANGED <<planner_vars, unit_vars, updater_vars,
                   cls, config, cache_file, now, ticks, pc, future, sdr_data,
                   calibration_data, pending, start_time, result, obs, stored, runs>>

\* collect_calibration_data_parallel lines 146-161: join both threads, then
\* get one record from each queue.
collect_calibration_data_parallel ==
    /\ cls = Optimized
    /\ pc = "join"
    /\ \A u \in Units : thread[u] = "done"
    /\ \A u \in Units : result_queue[u] # <<>>
    /\ sdr_data' = [u \in Units |-> Head(result_queue[u])]
    /\ result_queue' = [u \in Units |-> Tail(result_queue[u])]
    /\ calibration_data' = [sdr1 |-> Head(result_queue["sdr1"]),
                            sdr2 |-> Head(result_queue["sdr2"]),
                            calibration_time |-> now - start_time]
    /\ pc' = "fuse"
    /\ UNCHANGED <<planner_vars, unit_vars, updater_vars,
                   sdr_configs, cls, config, cache_file, now, ticks, thread, future, pending,
                   start_time, result, obs, measured, stored, runs>>

\* _collect_calibration_data_sequential lines 384-392: get the record of the
\* unit just calibrated; after sdr1, calibrate sdr2.
_collect_calibration_data_sequential(u) ==
    /\ cls = Optimized
    /\ pc = (IF u = "sdr1" THEN "seq1" ELSE "seq2")
    /\ thread[u] = "done"
    /\ result_queue[u] # <<>>
    /\ sdr_data' = [sdr_data EXCEPT ![u] = Head(result_queue[u])]
    /\ result_queue' = [result_queue EXCEPT ![u] = Tail(@)]
    /\ IF u = "sdr1"
       THEN /\ pc' = "seq2"
            /\ thread' = [thread EXCEPT !["sdr2"] = "running"]
            /\ obs' = [obs EXCEPT !.calls["sdr2"] = 1]
            /\ calibration_data' = calibration_data
       ELSE /\ pc' = "fuse"
            /\ calibration_data' = [sdr1 |-> sdr_data["sdr1"],
                                    sdr2 |-> Head(result_queue[u]),
                                    calibration_time |-> now - start_time]
            /\ UNCHANGED <<thread, obs>>
    /\ UNCHANGED <<planner_vars, unit_vars, updater_vars,
                   sdr_configs, cls, config, cache_file, now, ticks, future, pending, start_time,
                   result, measured, stored, runs>>

\* Line 364: optimize_calibration_matrices; a KeyError leaves run.
optimize_matrices ==
    /\ cls = Optimized
    /\ pc = "fuse"
    /\ LET r == optimize_calibration_matrices(config, calibration_data)
       IN  /\ obs' = [obs EXCEPT !.fused = TRUE]
           /\ IF r.kind = "ok"
              THEN /\ calibration_data' = r.value
                   /\ pc' = "save"
                   /\ result' = result
              ELSE /\ calibration_data' = calibration_data
                   /\ pc' = "done"
                   /\ result' = Raised(r.error)
    /\ UNCHANGED <<planner_vars, unit_vars, updater_vars,
                   sdr_configs, cls, config, cache_file, now, ticks, thread, future, result_queue,
                   sdr_data, pending, start_time, measured, stored, runs>>

\* save_calibration_cache lines 309-312: open(cache_file, 'w') truncates the
\* file; an error is not caught and leaves run.
optimized_save_open ==
    /\ cls = Optimized
    /\ pc = "save"
    /\ \E io \in {"ok", "OSError"} :
          IF io = "ok"
          THEN /\ cache_file' = Partial
               /\ obs' = [obs EXCEPT !.writes = @ + 1]
               /\ pc' = "dump"
               /\ result' = result
          ELSE /\ pc' = "done"
               /\ result' = Raised(Exception("OSError", {}))
               /\ obs' = [obs EXCEPT !.write_failed = TRUE]
               /\ UNCHANGED cache_file
    /\ UNCHANGED <<planner_vars, unit_vars, updater_vars,
                   sdr_configs, cls, config, now, ticks, thread, future, result_queue, sdr_data,
                   calibration_data, pending, start_time, measured, stored, runs>>

\* Variant for comparison: the data as collected, before fusion, is written.
optimized_save_dump_unfused ==
    /\ cls = Optimized
    /\ pc = "dump"
    /\ \E io \in {"ok", "OSError"} :
          IF io = "ok"
          THEN /\ cache_file' = Json(OptimizedCacheData(
                                    [calibration_data EXCEPT !.sdr1 = sdr_data["sdr1"],
                                                             !.sdr2 = sdr_data["sdr2"]]))
               /\ obs' = [obs EXCEPT !.stored = TRUE]
               /\ stored' = Stored(calibration_data, now, config, runs)
               /\ result' = Returned(calibration_data)
          ELSE /\ result' = Raised(Exception("OSError", {}))
               /\ obs' = [obs EXCEPT !.write_failed = TRUE]
               /\ UNCHANGED <<cache_file, stored>>
    /\ pc' = "done"
    /\ UNCHANGED <<planner_vars, unit_vars, updater_vars,
                   sdr_configs, cls, config, now, ticks, thread, future, result_queue, sdr_data,
                   calibration_data, pending, start_time, measured, runs>>

\* save_calibration_cache line 313 and run lines 369-372: json.dump writes the
\* calibration data and run returns it; an error of json.dump leaves run.
optimized_save_dump ==
    /\ cls = Optimized
    /\ pc = "dump"
    /\ \E io \in {"ok", "OSError"} :
          IF io = "ok"
          THEN /\ cache_file' = Json(OptimizedCacheData(calibration_data))
               /\ obs' = [obs EXCEPT !.stored = TRUE]
               /\ stored' = Stored(calibration_data, now, config, runs)
               /\ result' = Returned(calibration_data)
          ELSE /\ result' = Raised(Exception("OSError", {}))
               /\ obs' = [obs EXCEPT !.write_failed = TRUE]
               /\ UNCHANGED <<cache_file, stored>>
    /\ pc' = "done"
    /\ UNCHANGED <<planner_vars, unit_vars, updater_vars,
                   sdr_configs, cls, config, now, ticks, thread, future, result_queue, sdr_data,
                   calibration_data, pending, start_time, measured, runs>>

----------------------------------------------------------------------------
(* The environment *)

\* Time passes between two runs: the clock is read as advanced by about the
\* maximum age of a cache record (a run itself is short against it).
TickSteps == {3599, 3600, 3601}

Tick ==
    /\ pc = "done"
    /\ runs < MaxRuns
    /\ ticks < MaxTicks
    /\ \E dt \in TickSteps : now' = now + dt
    /\ ticks' = ticks + 1
    /\ UNCHANGED <<planner_vars, unit_vars, updater_vars,
                   sdr_configs, cls, config, cache_file, pc, thread, future, result_queue,
                   sdr_data, calibration_data, pending, start_time, result, obs,
                   measured, stored, runs>>

\* load_config: a new orchestrator is constructed between two runs from an
\* edited configuration file (here: another frequency step); its sdr_configs
\* are those of the file.
load_config ==
    /\ pc = "done"
    /\ runs < MaxRuns
    /\ \E step \in FrequencySteps \ {config.frequency_step} :
          config' = [config EXCEPT !.frequency_step = step]
    /\ sdr_configs' = DefaultSdrConfigs
    /\ UNCHANGED <<planner_vars, unit_vars, updater_vars,
                   cls, cache_file, now, ticks, pc, thread, future, result_queue,
                   sdr_data, calibration_data, pending, start_time, result, obs,
                   measured, stored, runs>>

Next ==
    \/ calibrate_dual_sdr_optimized
    \/ \E u \in Units : sdr_calibrate_func(u)
    \/ \E u \in Units : future_result(u)
    \/ executor_exit
    \/ apply_shared_calibration
    \/ dual_save_open
    \/ dual_save_dump
    \/ run_optimized_calibration
    \/ \E u \in Units : _calibrate_single_sdr(u)
    \/ collect_calibration_data_parallel
    \/ \E u \in Units : _collect_calibration_data_sequential(u)
    \/ optimize_matrices
    \/ optimized_save_open
    \/ optimized_save_dump
    \/ Tick
    \/ load_config

Spec == Init /\ [][Next]_vars

----------------------------------------------------------------------------
(* Frequency planning *)
(*                                                                         *)
(* Frequencies are in MHz.  The three planning methods are pure functions  *)
(* of a configuration or of a block of samples; a behaviour of PlannerSpec *)
(* calls one of them on one input.                                         *)

MaxFreqEnd == 203
MaxStep == 5
MaxSample == 2
MaxPoints == 160

\* np.arange(start, stop, step) for step # 0: the values start + i * step
\* before stop, ceil((stop - start) / step) of them, none when that is not
\* positive.
np_arange(start, stop, step) ==
    LET n == IF step > 0
             THEN IF stop > start THEN (stop - start + step - 1) \div step ELSE 0
             ELSE IF stop < start THEN (start - stop - step - 1) \div (-step) ELSE 0
    IN  [i \in 1..n |-> start + (i - 1) * step]

\* np.arange with a step of zero raises: ZeroDivisionError when the three
\* arguments are Python ints, ValueError ("Maximum allowed size exceeded")
\* when one is a float.
ZeroStepErrors == {Exception("ZeroDivisionError", {}), Exception("ValueError", {})}

\* OptimizedDualKrakenCalibration._get_calibration_frequencies
_get_calibration_frequencies ==
    /\ called = "_get_calibration_frequencies"
    /\ plan_pc = "idle"
    /\ LET freq_start == freq_config.frequency_range[1]
           freq_end == freq_config.frequency_range[2]
           freq_step == freq_config.frequency_step
       IN  IF freq_step = 0
           THEN \E err \in ZeroStepErrors : frequencies' = Raise(err)
           ELSE frequencies' = Ok(np_arange(freq_start, freq_end + freq_step, freq_step))
    /\ plan_pc' = "done"
    /\ UNCHANGED <<orchestrator_vars, unit_vars, updater_vars,
                   called, freq_config, signal_data, current_freq>>

\* KrakenSystemOptimizer._reduce_frequency_points: start_freq and end_freq
start_freq == 50
end_freq == 200

\* Lines 144-151: the locals before the loop
_reduce_frequency_points ==
    /\ called = "_reduce_frequency_points"
    /\ plan_pc = "idle"
    /\ frequencies' = [kind |-> "list", value |-> <<>>]
    /\ current_freq' = start_freq
    /\ plan_pc' = "while"
    /\ UNCHANGED <<orchestrator_vars, unit_vars, updater_vars,
                   called, freq_config, signal_data>>

\* Lines 152-155: one test of the loop condition; then one iteration, or the
\* return of the list.  (The model follows a loop for MaxPoints iterations.)
reduce_while ==
    /\ plan_pc = "while"
    /\ Len(frequencies.value) < MaxPoints
    /\ IF current_freq <= end_freq
       THEN /\ frequencies' = [frequencies EXCEPT !.value = Append(@, current_freq)]
            /\ current_freq' = current_freq + freq_config.frequency_step
            /\ plan_pc' = "while"
       ELSE /\ frequencies' = Ok(frequencies.value)
            /\ plan_pc' = "done"
            /\ UNCHANGED current_freq
    /\ UNCHANGED <<orchestrator_vars, unit_vars, updater_vars,
                   called, freq_config, signal_data>>

\* FrequencyDomainOptimizer(sample_rate, fft_size): sample rate in kHz, and a
\* transform of six points.
sample_rate == 2048
fft_size == 6

\* exp(-2j * pi * m / 6) = Twiddle(m)[1] / 2 - 1j * (sqrt(3) / 2) * Twiddle(m)[2]
Twiddle(m) ==
    CASE m % 6 = 0 -> <<2, 0>>
      [] m % 6 = 1 -> <<1, 1>>
      [] m % 6 = 2 -> <<-1, 1>>
      [] m % 6 = 3 -> <<-2, 0>>
      [] m % 6 = 4 -> <<-1, -1>>
      [] m % 6 = 5 -> <<1, -1>>

RECURSIVE Sum(_, _)
Sum(f, n) == IF n = 0 THEN 0 ELSE f[n] + Sum(f, n - 1)

\* np.fft.fft(x, fft_size) of real samples: x is cut or padded with zeros to
\* fft_size points; bin k is sum_n x[n] * exp(-2j * pi * k * n / fft_size),
\* held as <<a, b>> for the value a / 2 - 1j * (sqrt(3) / 2) * b.
np_fft_fft(x) ==
    LET padded == [n \in 1..fft_size |-> IF n <= Len(x) THEN x[n] ELSE 0]
    IN  [k \in 1..fft_size |->
            <<Sum([n \in 1..fft_size |-> padded[n] * Twiddle((k - 1) * (n - 1))[1]],
                  fft_size),
              Sum([n \in 1..fft_size |-> padded[n] * Twiddle((k - 1) * (n - 1))[2]],
                  fft_size)>>]

\* The power spectrum is held in quarters: |a / 2 - 1j * (sqrt(3) / 2) * b| ** 2
\* is (a * a + 3 * b * b) / 4.
PowerScale == 4

\* np.abs(fft_data) ** 2, times PowerScale
PowerSpectrum(fft_data) ==
    [k \in 1..Len(fft_data) |->
        fft_data[k][1] * fft_data[k][1] + 3 * fft_data[k][2] * fft_data[k][2]]

\* np.fft.fftfreq(fft_size, 1 / sample_rate), in kHz and times fft_size: the
\* bins of the first half are 0, 1, ..., those of the second half negative.
freq_bins ==
    [k \in 1..fft_size |->
        (IF 2 * (k - 1) < fft_size THEN k - 1 ELSE k - 1 - fft_size) * sample_rate]

\* threshold of _find_peaks, 0.1, in tenths
PeakThreshold == 1

\* Variant for comparison: a point level with its right neighbour is a peak.
_find_peaks_plateau(data) ==
    SelectSeq([i \in 1..Len(data) |-> i],
              LAMBDA i : /\ 1 < i
                         /\ i < Len(data)
                         /\ data[i] > data[i - 1]
                         /\ data[i] >= data[i + 1]
                         /\ 10 * data[i] > PeakThreshold * PowerScale)

\* _find_peaks: the positions (ascending) of the inner points that exceed both
\* neighbours and the threshold.
_find_peaks(data) ==
    SelectSeq([i \in 1..Len(data) |-> i],
              LAMBDA i : /\ 1 < i
                         /\ i < Len(data)
                         /\ data[i] > data[i - 1]
                         /\ data[i] > data[i + 1]
                         /\ 10 * data[i] > PeakThreshold * PowerScale)

RECURSIVE Insert(_, _)
Insert(v, t) ==
    IF t = <<>> THEN <<v>>
    ELSE IF v <= Head(t) THEN <<v>> \o t
    ELSE <<Head(t)>> \o Insert(v, Tail(t))

\* the values of a sequence in ascending order
RECURSIVE SortedSeq(_)
SortedSeq(data) ==
    IF data = <<>> THEN <<>> ELSE Insert(Head(data), SortedSeq(Tail(data)))

\* np.percentile(data, 10), times ten: linear interpolation between the two
\* order statistics around rank 0.1 * (len(data) - 1).
Percentile10(data) ==
    LET t == SortedSeq(data)
        rank == Len(data) - 1                    \* in tenths
        below == rank \div 10 + 1
        frac == rank % 10
    IN  IF frac = 0 THEN 10 * t[below]
        ELSE 10 * t[below] + frac * (t[below + 1] - t[below])

\* optimize_frequency_hopping lines 57-69.  np.array([]) of _find_peaks is an
\* array of floats: indexing freq_bins with it raises IndexError.
FrequencyHopping(signal) ==
    LET power_spectrum == PowerSpectrum(np_fft_fft(signal))
        peak_indices == _find_peaks(power_spectrum)
        noise_floor == Percentile10(power_spectrum)
        valid == SelectSeq(peak_indices,
                           LAMBDA i : 10 * power_spectrum[i] > noise_floor * 2)
    IN  IF peak_indices = <<>>
        THEN Raise(Exception("IndexError", {}))
        ELSE Ok([j \in 1..Len(valid) |-> freq_bins[valid[j]]])

optimize_frequency_hopping ==
    /\ called = "optimize_frequency_hopping"
    /\ plan_pc = "idle"
    /\ frequencies' = FrequencyHopping(signal_data)
    /\ plan_pc' = "done"
    /\ UNCHANGED <<orchestrator_vars, unit_vars, updater_vars,
                   called, freq_config, signal_data, current_freq>>

\* The configurations and the blocks of samples the methods are called on
FreqConfigs ==
    [frequency_range : {<<50, hi>> : hi \in 198..MaxFreqEnd}
                            \cup {<<88, 108>>, <<200, 50>>},
     frequency_step : -1..MaxStep]

Signals ==
    UNION {[1..n -> -1..MaxSample] : n \in {fft_size - 1, fft_size}}

\* The orchestrator object exists and no run has started.
OrchestratorIdle ==
    /\ cls = Optimized
    /\ config = [use_cached_calibration |-> TRUE, parallel_calibration |-> TRUE,
                  shared_calibration_data |-> TRUE, precompute_matrices |-> TRUE,
                  adaptive_sample_count |-> TRUE, frequency_step |-> 5]
    /\ sdr_configs = DefaultSdrConfigs
    /\ cache_file = Absent
    /\ stored = None
    /\ now = StartTime
    /\ ticks = 0
    /\ pc = "idle"
    /\ thread = Idle
    /\ future = Nothing
    /\ result_queue = [u \in Units |-> <<>>]
    /\ sdr_data = Nothing
    /\ calibration_data = None
    /\ pending = None
    /\ start_time = StartTime
    /\ result = None
    /\ obs = NoObs
    /\ measured = Nothing
    /\ runs = 0

PlannerInit ==
    /\ OrchestratorIdle
    /\ UnitIdle
    /\ UpdaterIdle
    /\ plan_pc = "idle"
    /\ current_freq = 0
    /\ frequencies = None
    /\ \/ /\ called = "_get_calibration_frequencies"
          /\ freq_config \in FreqConfigs
          /\ signal_data = <<>>
       \/ /\ called = "_reduce_frequency_points"
          /\ freq_config \in [frequency_range : {<<start_freq, end_freq>>},
                               frequency_step : -1..MaxStep]
          /\ signal_data = <<>>
       \/ /\ called = "optimize_frequency_hopping"
          /\ freq_config = [frequency_range |-> <<50, 200>>, frequency_step |-> 5]
          /\ signal_data \in Signals

PlannerNext ==
    \/ _get_calibration_frequencies
    \/ _reduce_frequency_points
    \/ reduce_while
    \/ optimize_frequency_hopping

PlannerSpec == PlannerInit /\ [][PlannerNext]_vars

----------------------------------------------------------------------------
(* Calibration of one unit, frequency by frequency *)
(*                                                                         *)
(* The script written by generate_optimized_calibration_script calibrates  *)
(* a unit with one measurement per frequency.  A behaviour of UnitSpec is  *)
(* one call of its _calibrate_single_sdr.                                  *)

\* self.config of the script: the default has skip_clock_calibration True and
\* a frequency_step of 5 MHz; a wider step keeps some plans short.
UnitConfigs ==
    [skip_clock_calibration : BOOLEAN, frequency_step : {5, 50}]

UnitIds == {"SDR1", "SDR2"}

\* _process_samples: the statistics of the samples collected at one frequency
ProcessedSamples == [mean |-> 0, std |-> 1, power |-> 1]

\* The exception of a measurement that fails at frequency freq
MeasurementError(freq) == Exception("Exception", {<<"measurement at", freq, "failed">>})

\* Lines 193-203: the call; the clock calibration unless it is skipped (the
\* script defines no _calibrate_clock: the call raises AttributeError); then
\* the frequencies and an empty calibration_data.
guide_calibrate_single_sdr ==
    /\ unit_pc = "idle"
    /\ IF ~unit_config.skip_clock_calibration
       THEN /\ unit_return' = Raise(Exception("AttributeError", {}))
            /\ unit_pc' = "done"
            /\ UNCHANGED <<unit_frequencies, unit_index, unit_calibration_data>>
       ELSE /\ unit_frequencies' =
                  np_arange(start_freq, end_freq + unit_config.frequency_step,
                            unit_config.frequency_step)
            /\ unit_calibration_data' = <<>>
            /\ unit_index' = 1
            /\ unit_pc' = "for"
            /\ UNCHANGED unit_return
    /\ UNCHANGED <<orchestrator_vars, planner_vars, updater_vars,
                   unit_config, unit_sdr_id, unit_failed>>

\* Lines 205-208: one iteration of the for loop.  _collect_samples_optimized
\* and _process_samples return, and the result is stored under freq; or one
\* of them raises, and the exception leaves _calibrate_single_sdr, which has
\* no try statement.
guide_for_freq ==
    /\ unit_pc = "for"
    /\ unit_index <= Len(unit_frequencies)
    /\ LET freq == unit_frequencies[unit_index]
       IN  \/ /\ unit_calibration_data' =
                    [f \in DOMAIN unit_calibration_data \cup {freq} |->
                        IF f = freq THEN ProcessedSamples ELSE unit_calibration_data[f]]
              /\ unit_index' = unit_index + 1
              /\ UNCHANGED <<unit_pc, unit_return, unit_failed>>
           \/ /\ unit_failed' = unit_failed \cup {freq}
              /\ unit_return' = Raise(MeasurementError(freq))
              /\ unit_pc' = "done"
              /\ UNCHANGED <<unit_calibration_data, unit_index>>
    /\ UNCHANGED <<orchestrator_vars, planner_vars, updater_vars,
                   unit_config, unit_sdr_id, unit_frequencies>>

\* Lines 210-217: after the last frequency the result dict is returned.
guide_return ==
    /\ unit_pc = "for"
    /\ unit_index > Len(unit_frequencies)
    /\ unit_return' = Ok([sdr_id |-> unit_sdr_id,
                          calibration_data |-> unit_calibration_data,
                          frequencies_calibrated |-> Len(unit_frequencies)])
    /\ unit_pc' = "done"
    /\ UNCHANGED <<orchestrator_vars, planner_vars, updater_vars, unit_config,
                   unit_sdr_id, unit_frequencies, unit_index,
                   unit_calibration_data, unit_failed>>

UnitInit ==
    /\ OrchestratorIdle
    /\ PlannerIdle
    /\ UpdaterIdle
    /\ unit_pc = "idle"
    /\ unit_config \in UnitConfigs
    /\ unit_sdr_id \in UnitIds
    /\ unit_frequencies = <<>>
    /\ unit_index = 0
    /\ unit_calibration_data = <<>>
    /\ unit_return = None
    /\ unit_failed = {}

UnitNext ==
    \/ guide_calibrate_single_sdr
    \/ guide_for_freq
    \/ guide_return

UnitSpec == UnitInit /\ [][UnitNext]_vars

----------------------------------------------------------------------------
(* Background calibration updates *)
(*                                                                         *)
(* RealTimeCalibrationUpdater: every start_background_updates starts a     *)
(* daemon thread that runs update_loop.  update_thread[t] is the position  *)
(* of the t-th thread started: "while" (about to test self.is_running),    *)
(* "try" (calibration_func called), "callbacks" (about to notify),         *)
(* "sleep", or "exited".                                                   *)

MaxStarts == 2
MaxCallbacks == 1
MaxDelivered == 2

Threads == 1..Len(update_thread)

\* add_update_callback
add_update_callback ==
    /\ update_callbacks < MaxCallbacks
    /\ update_callbacks' = update_callbacks + 1
    /\ UNCHANGED <<orchestrator_vars, planner_vars, unit_vars, is_running,
                   updater_calibration_data, update_thread, started,
                   begun_stopped, delivered_stopped>>

\* start_background_updates: is_running is set and a new thread is started,
\* whatever the threads started before are doing.
start_background_updates ==
    /\ started < MaxStarts
    /\ is_running' = TRUE
    /\ update_thread' = Append(update_thread, "while")
    /\ started' = started + 1
    /\ begun_stopped' = Append(begun_stopped, FALSE)
    /\ delivered_stopped' = Append(delivered_stopped, 0)
    /\ UNCHANGED <<orchestrator_vars, planner_vars, unit_vars, update_callbacks,
                   updater_calibration_data>>

\* stop_background_updates: is_running is cleared; no thread is joined.
stop_background_updates ==
    /\ is_running' = FALSE
    /\ delivered_stopped' = [t \in Threads |-> 0]
    /\ UNCHANGED <<orchestrator_vars, planner_vars, unit_vars, update_callbacks,
                   updater_calibration_data, update_thread, started, begun_stopped>>

\* Variant for comparison: the loop does not test is_running.
update_loop_while_true(t) ==
    /\ update_thread[t] = "while"
    /\ update_thread' = [update_thread EXCEPT ![t] = "try"]
    /\ begun_stopped' = [begun_stopped EXCEPT ![t] = ~is_running]
    /\ UNCHANGED <<orchestrator_vars, planner_vars, unit_vars, is_running,
                   update_callbacks, updater_calibration_data, started,
                   delivered_stopped>>

\* while self.is_running: the test; calibration_func is called next, or the
\* loop and its thread end.
update_loop_while(t) ==
    /\ update_thread[t] = "while"
    /\ update_thread' = [update_thread EXCEPT ![t] = IF is_running THEN "try" ELSE "exited"]
    /\ begun_stopped' = [begun_stopped EXCEPT ![t] = FALSE]
    /\ UNCHANGED <<orchestrator_vars, planner_vars, unit_vars, is_running,
                   update_callbacks, updater_calibration_data, started,
                   delivered_stopped>>

\* new_data = calibration_func(); self.calibration_data = new_data.  When
\* calibration_func raises, the except clause logs and the loop sleeps.
update_loop_try(t) ==
    /\ update_thread[t] = "try"
    /\ \/ /\ updater_calibration_data' = [new_data_of |-> t]
          /\ update_thread' = [update_thread EXCEPT ![t] = "callbacks"]
       \/ /\ update_thread' = [update_thread EXCEPT ![t] = "sleep"]
          /\ UNCHANGED updater_calibration_data
    /\ UNCHANGED <<orchestrator_vars, planner_vars, unit_vars, is_running,
                   update_callbacks, started, begun_stopped, delivered_stopped>>

\* for callback in self.update_callbacks: callback(new_data).  (A callback
\* that raises ends the notification; the loop sleeps all the same.)
update_loop_callbacks(t) ==
    /\ update_thread[t] = "callbacks"
    /\ update_thread' = [update_thread EXCEPT ![t] = "sleep"]
    /\ delivered_stopped' =
          [delivered_stopped EXCEPT ![t] =
              IF is_running THEN @
              ELSE IF @ < MaxDelivered THEN @ + 1 ELSE @]
    /\ UNCHANGED <<orchestrator_vars, planner_vars, unit_vars, is_running,
                   update_callbacks, updater_calibration_data, started,
                   begun_stopped>>

\* time.sleep(self.update_interval) returns.
update_loop_sleep(t) ==
    /\ update_thread[t] = "sleep"
    /\ update_thread' = [update_thread EXCEPT ![t] = "while"]
    /\ UNCHANGED <<orchestrator_vars, planner_vars, unit_vars, is_running,
                   update_callbacks, updater_calibration_data, started,
                   begun_stopped, delivered_stopped>>

\* One step of the t-th thread
update_loop(t) ==
    \/ update_loop_while(t)
    \/ update_loop_try(t)
    \/ update_loop_callbacks(t)
    \/ update_loop_sleep(t)

UpdaterInit ==
    /\ OrchestratorIdle
    /\ PlannerIdle
    /\ UnitIdle
    /\ UpdaterIdle

UpdaterNext ==
    \/ add_update_callback
    \/ start_background_updates
    \/ stop_background_updates
    \/ \E t \in Threads : update_loop(t)

\* Every thread started is scheduled again and again; calibration_func, the
\* callbacks and time.sleep return.
UpdaterSpec ==
    /\ UpdaterInit
    /\ [][UpdaterNext]_vars
    /\ \A t \in 1..MaxStarts : WF_vars(t \in Threads /\ update_loop(t))

----------------------------------------------------------------------------
(* Properties *)

CacheEnabled ==
    IF cls = Dual THEN config.cache_enabled ELSE config.use_cached_calibration

Ttl ==
    IF cls = Dual THEN config.cache_validity_hours * SecondsPerHour ELSE CacheMaxAge

\* The payload the run returns from a cache record
CachedPayload ==
    IF cls = Dual THEN cache_file.data.calibration_data ELSE cache_file.data

NoCalls == \A u \in Units : obs.calls[u] = 0

\* C1: a run whose cache lookup hit is over at once and returns the cached
\* payload: no unit calibration was invoked, the fusion method was not called
\* and the cache file was not opened for writing.
C1_CacheHitReturnsAtOnce ==
    obs.hit =>
        /\ pc = "done"
        /\ cache_file.state = "json"
        /\ result = Returned(CachedPayload)
        /\ \A u \in Units :
              obs.calls[u] = 0 /\ thread[u] = "idle" /\ measured[u] = None
        /\ ~obs.fused
        /\ obs.writes = 0

\* C1 witness: a second run hit the record the first run wrote.
C1_Witness ==
    /\ obs.hit
    /\ pc = "done"
    /\ runs = 2
    /\ stored # None
    /\ stored.run = 1

\* C2: the run after a run that stored its result, with the cache enabled, the
\* configuration the same and the record younger than the TTL, invokes no unit
\* calibration and returns what the first run returned.
C2_SecondRunReturnsFirstResult ==
    ( /\ runs >= 2
      /\ pc # "idle"
      /\ stored # None
      /\ stored.run = runs - 1
      /\ stored.config = config
      /\ CacheEnabled
      /\ start_time - stored.at < Ttl )
    => /\ NoCalls
       /\ pc = "done"
       /\ result = Returned(stored.value)

\* C3: right after a run has stored R, a lookup under the same configuration
\* hits and its payload is R.
C3_StoreLookupRoundTrip ==
    ( /\ pc = "done"
      /\ obs.stored
      /\ stored.config = config
      /\ now = stored.at
      /\ CacheEnabled )
    => LET record == IF cls = Dual
                     THEN check_calibration_cache(config, cache_file, now)
                     ELSE load_calibration_cache(cache_file, now)
       IN  /\ record # None
           /\ (IF cls = Dual THEN record.calibration_data ELSE record)
                 = calibration_data

\* The lookup of the current run was made on the file as it is now, a record
\* with a timestamp.
LookedUpThisFile ==
    /\ pc # "idle"
    /\ CacheEnabled
    /\ obs.writes = 0
    /\ cache_file.state = "json"
    /\ HasKey(cache_file.data, "timestamp")

LookupAge == start_time - cache_file.data.timestamp

C5_HitOnlyUnderSameConfig ==
    (obs.hit /\ stored # None /\ stored.run >= 1) => stored.config = config

\* A unit calibration failed / succeeded in the current run
Failed(u) == measured[u].kind = "raise"
Succeeded(u) == measured[u].kind = "ok"

\* The run did not end in an error of the cache write
NoCacheWriteError == ~(result.kind = "raised" /\ result.error.type = "OSError")

\* The data of unit u in calibration data cd, and as u measured it
UnitData(cd, u) == IF cls = Dual THEN cd[u] ELSE cd[u].calibration_data
MeasuredData(u) == measured[u].value

\* C6: when one unit fails and the other succeeds, the run returns a result
\* that flags the failed unit and holds the other unit's data as measured.
C6_PartialFailureReturns ==
    \A f \in Units : \A s \in Units \ {f} :
        (pc = "done" /\ Failed(f) /\ Succeeded(s) /\ NoCacheWriteError)
        => /\ result.kind = "returned"
           /\ result.value[f].status = "error"
           /\ UnitData(result.value, s) = MeasuredData(s)

\* C7: when every unit fails, the run raises an error that carries the failure
\* reason of each unit.
C7_TotalFailureRaisesWithReasons ==
    (pc = "done" /\ \A u \in Units : Failed(u))
    => /\ result.kind = "raised"
       /\ \A u \in Units : Reason(u) \in result.error.reasons

\* The record of unit u was collected as u produced it
Collected(u) ==
    /\ sdr_data[u] # None
    /\ UnitData(sdr_data, u) = MeasuredData(u)

\* C8: in parallel mode fusion starts only when every unit calibration is
\* over, every dispatched unit calibration runs to its end, and the result of
\* a successful unit is collected also when the other unit failed.
C8_ParallelWaitsAndCollects ==
    config.parallel_calibration =>
        /\ pc \in {"fuse", "save", "dump"} => \A u \in Units : thread[u] = "done"
        /\ (pc = "done" /\ ~obs.hit) => \A u \in Units : thread[u] = "done"
        /\ \A f \in Units : \A s \in Units \ {f} :
              (pc = "done" /\ Failed(f) /\ Succeeded(s)) => Collected(s)

SharedReference ==
    IF cls = Dual THEN config.common_noise_source ELSE config.shared_calibration_data

NoiseFloorOf(d) == IF cls = Dual THEN d.noise_data.noise_floor ELSE d.noise_floor
PhasesOf(d) == IF cls = Dual THEN d.antenna_data.phases.v ELSE d.phase_offsets.v
GainsOf(d) == IF cls = Dual THEN d.antenna_data.gains.v ELSE d.antenna_gains.v

MeanVector(a, b) == [i \in 1..Len(a) |-> Mean(a[i], b[i])]

\* The fusion method was called on the results of two successful units (for
\* DualKrakenOptimizer: results that hold noise data).
FusedTwoResults ==
    /\ obs.fused
    /\ SharedReference
    /\ \A u \in Units : Succeeded(u)
    /\ cls = Dual => \A u \in Units : HasKey(MeasuredData(u), "noise_data")

\* C9: with shared reference enabled and two successful unit results, fusion
\* leaves every unit with the mean of the two noise floors and the mean of the
\* two phase offsets.
C9_FusionSetsMeans ==
    FusedTwoResults =>
        \A u \in Units :
            /\ NoiseFloorOf(UnitData(calibration_data, u))
                 = Mean(NoiseFloorOf(MeasuredData("sdr1")),
                        NoiseFloorOf(MeasuredData("sdr2")))
            /\ PhasesOf(UnitData(calibration_data, u))
                 = MeanVector(PhasesOf(MeasuredData("sdr1")),
                              PhasesOf(MeasuredData("sdr2")))

----------------------------------------------------------------------------
(* Properties of fusion *)

\* The fusion method of the class, on calibration data cd
Fuse(cd) ==
    IF cls = Dual THEN _apply_shared_calibration(cd)
                  ELSE optimize_calibration_matrices(config, cd)

\* The calibration data as collected, before the fusion step
FusionInput ==
    [calibration_data EXCEPT !.sdr1 = sdr_data["sdr1"], !.sdr2 = sdr_data["sdr2"]]

\* The run is past its fusion step
PastFusion == pc \in {"save", "dump"} \/ (pc = "done" /\ obs.writes > 0)

\* C11: with the shared-reference flag false nothing is averaged: after the
\* fusion step every unit's record is the record that was collected, and holds
\* the data the unit measured.
C11_NoSharingPassesThrough ==
    (~SharedReference /\ PastFusion) =>
        /\ calibration_data = FusionInput
        /\ \A u \in Units :
              Succeeded(u) => UnitData(calibration_data, u) = MeasuredData(u)

\* C11 witness: a run without shared reference is past its fusion step with
\* two results of different noise floors.
C11_Witness ==
    /\ ~SharedReference
    /\ pc = "save"
    /\ \A u \in Units : Succeeded(u)
    /\ cls = Dual => \A u \in Units : HasKey(MeasuredData(u), "noise_data")
    /\ NoiseFloorOf(MeasuredData("sdr1")) # NoiseFloorOf(MeasuredData("sdr2"))

\* C12: with shared reference enabled and a failed unit, fusion completes
\* without error and leaves the records of both units as they were collected.
C12_FusionPassesThroughOnFailure ==
    (SharedReference /\ obs.fused /\ \E u \in Units : Failed(u)) =>
        /\ ~(pc = "done" /\ result.kind = "raised" /\ ~obs.write_failed)
        /\ calibration_data = FusionInput

\* The two unit records exchanged
Swap(cd) == [cd EXCEPT !.sdr1 = cd.sdr2, !.sdr2 = cd.sdr1]

SwapOutcome(r) == IF r.kind = "ok" THEN Ok(Swap(r.value)) ELSE r

\* C13: fusion of the two unit results presented in the other order gives the
\* same outcome with the two unit records exchanged: the same shared values,
\* the same output per unit, the same error.
C13_FusionOrderIndependent ==
    (SharedReference /\ obs.fused) =>
        /\ Fuse(Swap(FusionInput)) = SwapOutcome(Fuse(FusionInput))
        /\ pc = "save" => Fuse(FusionInput) = Ok(calibration_data)

\* C13 witness: two results of different noise floors were fused.
C13_Witness ==
    /\ FusedTwoResults
    /\ pc = "save"
    /\ calibration_data # FusionInput
    /\ NoiseFloorOf(MeasuredData("sdr1")) # NoiseFloorOf(MeasuredData("sdr2"))

----------------------------------------------------------------------------
(* Properties of the cache *)

\* C16: a run whose cache write failed returns its fused result.
C16_WriteFailureStillReturns ==
    (pc = "done" /\ obs.write_failed) => result = Returned(calibration_data)

\* The current run looked up a cache file that is missing, truncated, or
\* holds a record without a timestamp (the run has not yet written the file).
LookupOfUnreadableFile ==
    /\ pc # "idle"
    /\ CacheEnabled
    /\ obs.writes = 0
    /\ \/ cache_file.state \in {"absent", "partial"}
       \/ cache_file.state = "json" /\ ~HasKey(cache_file.data, "timestamp")

\* C17: a lookup of a missing or truncated file, or of a record without a
\* timestamp, is a miss and raises nothing: the run goes on to calibrate.
C17_UnreadableCacheIsMiss ==
    LookupOfUnreadableFile =>
        /\ ~obs.hit
        /\ obs.calls["sdr1"] = 1
        /\ (pc = "done" /\ result.kind = "raised") =>
              \E u \in Units : measured[u] # None

\* C17 witness: a second run found the file truncated by the failed write of
\* the first run, calibrated afresh and returned.
C17_Witness ==
    /\ LookupOfUnreadableFile
    /\ cache_file.state = "partial"
    /\ runs = 2
    /\ pc = "done"
    /\ result.kind = "returned"

\* C18: with caching disabled a run neither reads the cache file nor opens it
\* for writing.
C18_DisabledCacheUntouched ==
    ~CacheEnabled => (~obs.hit /\ obs.writes = 0)

\* C19: the cache file is never seen empty or partly written.
C19_StoreIsAtomic ==
    cache_file.state # "partial"

\* A unit calibration is in flight
InFlight == \E u \in Units : thread[u] = "running"

\* The record a complete write of calibration data cd leaves in the file
Written(cd) ==
    IF cls = Dual THEN Json(DualCacheData(stored.config, cd, stored.at))
                  ELSE Json(OptimizedCacheData(cd))

\* C20: while a unit calibration is in flight the run has neither hit the
\* cache nor opened the cache file for writing; the file is opened for writing
\* only when every unit calibration is over and the fusion step is done; and
\* the record written holds the outcome of fusion.
C20_CacheAccessOutsideCalibration ==
    /\ InFlight => (~obs.hit /\ obs.writes = 0 /\ pc \notin {"save", "dump"})
    /\ obs.writes > 0 =>
          /\ \A u \in Units : thread[u] = "done" /\ obs.calls[u] = 1
          /\ PastFusion
          /\ obs.fused \/ (cls = Dual /\ ~SharedReference)
    /\ (obs.stored /\ pc = "done") =>
          /\ cache_file = Written(calibration_data)
          /\ calibration_data =
                (IF obs.fused THEN Fuse(FusionInput).value ELSE FusionInput)

\* C20 witness: a parallel run of OptimizedDualKrakenCalibration stored the
\* fusion of two results with different noise floors.
C20_Witness ==
    /\ obs.stored
    /\ pc = "done"
    /\ cls = Optimized
    /\ config.parallel_calibration
    /\ FusedTwoResults
    /\ calibration_data # FusionInput

----------------------------------------------------------------------------
(* Properties of frequency planning (PlannerSpec) *)

\* The run has ended without a usable calibration: it raised, or every unit
\* failed.
RunFailed ==
    /\ pc = "done"
    /\ ~obs.hit
    /\ \/ result.kind = "raised"
       \/ \A u \in Units : Failed(u)

\* C21: a run that raises, or in which every unit failed, has not opened the
\* cache file for writing.
C21_NoWriteFromFailedRun ==
    RunFailed => obs.writes = 0

\* The sample parameters the configuration file gives every unit
ConfiguredSampleParameters == DefaultSdrConfigs

\* C26: the sample count and the dwell duration configured for every unit are
\* at every moment those the orchestrator was constructed with.
C26_CalibrationLeavesConfigUnchanged ==
    sdr_configs = ConfiguredSampleParameters


\* The record _calibrate_single_sdr owes the queue of unit u for the outcome
\* of its calibration
RecordOf(u) ==
    IF Succeeded(u)
    THEN [sdr_id |-> u, calibration_data |-> MeasuredData(u),
          calibration_time |-> result_queue[u][1].calibration_time,
          status |-> "success"]
    ELSE [sdr_id |-> u, error |-> Reason(u), status |-> "error"]

\* The invocation of _calibrate_single_sdr for unit u has ended and the
\* collection has not yet taken its record.
AwaitingGet(u) == thread[u] = "done" /\ sdr_data[u] = None

\* C27: a queue never holds more than one record; once the invocation for a
\* unit has ended, its queue holds exactly one record until the collection
\* takes it, a success record with the measured data if the calibration
\* returned and an error record with its reason if it raised; so no get of
\* the collection finds its queue empty, and the record it has taken is that
\* one.
C27_OneRecordPerInvocation ==
    cls = Optimized =>
        \A u \in Units :
            /\ Len(result_queue[u]) <= 1
            /\ thread[u] = "running" => result_queue[u] = <<>>
            /\ AwaitingGet(u) => result_queue[u] = <<RecordOf(u)>>
            /\ sdr_data[u] # None =>
                  /\ result_queue[u] = <<>>
                  /\ sdr_data[u].status = (IF Succeeded(u) THEN "success" ELSE "error")

\* C27 witness: the parallel collection has ended with the error record of
\* sdr1, whose calibration raised, and the success record of sdr2.
C27_Witness ==
    /\ cls = Optimized
    /\ config.parallel_calibration
    /\ pc = "fuse"
    /\ Failed("sdr1") /\ sdr_data["sdr1"].status = "error"
    /\ Succeeded("sdr2") /\ sdr_data["sdr2"].status = "success"


\* A fixed-step planning method has returned.
FixedStepPlanned ==
    /\ plan_pc = "done"
    /\ called \in {"_get_calibration_frequencies", "_reduce_frequency_points"}

\* C14: for step > 0 and f_hi > f_lo the fixed-step plan is strictly
\* increasing, starts at f_lo, ends at or below f_hi and has
\* floor((f_hi - f_lo) / step) + 1 elements; from 50 MHz to 200 MHz in steps of
\* 5 MHz it has 31 entries, the last 200 MHz.
C14_FixedStepPlan ==
    LET f_lo == freq_config.frequency_range[1]
        f_hi == freq_config.frequency_range[2]
        step == freq_config.frequency_step
        plan == frequencies.value
    IN  (FixedStepPlanned /\ step > 0 /\ f_hi > f_lo) =>
            /\ frequencies.kind = "ok"
            /\ Len(plan) = (f_hi - f_lo) \div step + 1
            /\ plan[1] = f_lo
            /\ plan[Len(plan)] <= f_hi
            /\ \A i \in 1..(Len(plan) - 1) : plan[i] < plan[i + 1]
            /\ (f_lo = 50 /\ f_hi = 200 /\ step = 5) =>
                    (Len(plan) = 31 /\ plan[31] = 200)

\* C15: signal-informed planning returns a non-empty list of frequencies for
\* every block of samples.
C15_SignalPlanNeverEmpty ==
    (plan_pc = "done" /\ called = "optimize_frequency_hopping") =>
        /\ frequencies.kind = "ok"
        /\ frequencies.value # <<>>

\* The configured step is not positive, or the range holds no point.
InvalidRange ==
    \/ freq_config.frequency_step <= 0
    \/ freq_config.frequency_range[2] < freq_config.frequency_range[1]

\* C23: fixed-step planning on a step <= 0 or on a range without points ends
\* with InvalidRangeError before it builds any plan; every plan it returns is
\* non-empty.
C23_InvalidRangeRaises ==
    /\ FixedStepPlanned =>
          IF InvalidRange
          THEN frequencies = Raise(Exception("InvalidRangeError", {}))
          ELSE frequencies.kind = "ok" /\ frequencies.value # <<>>
    /\ InvalidRange => plan_pc # "while"

\* C30: every iteration of the loop of _reduce_frequency_points brings
\* current_freq nearer to end_freq, so the loop ends after finitely many
\* iterations and the list returned is finite.
C30_ReduceLoopTerminates ==
    [][(plan_pc = "while" /\ plan_pc' = "while") => current_freq' > current_freq]_vars

\* Signal-informed planning has ended.
SignalPlanned == plan_pc = "done" /\ called = "optimize_frequency_hopping"

\* C24: the list signal-informed planning returns is strictly ascending in
\* frequency (so without duplicates).
C24_SignalPlanAscending ==
    (SignalPlanned /\ frequencies.kind = "ok") =>
        \A i \in 1..(Len(frequencies.value) - 1) :
            frequencies.value[i] < frequencies.value[i + 1]

\* The power spectrum of the block of samples planned on, as a sequence of
\* its values
Power == PowerSpectrum(np_fft_fft(signal_data)) \o <<>>

\* In the spectrum P, bin i is an interior bin whose power exceeds both
\* neighbours and the absolute threshold.
IsPeak(P, i) ==
    /\ 1 < i /\ i < fft_size
    /\ P[i] > P[i - 1]
    /\ P[i] > P[i + 1]
    /\ 10 * P[i] > PeakThreshold * PowerScale

\* The power of bin i exceeds twice the 10th-percentile power (given times
\* ten).
PassesNoiseFilter(P, percentile, i) == 10 * P[i] > 2 * percentile

\* The frequency of bin i is in the list returned.
Selected(i) ==
    \E j \in 1..Len(frequencies.value) : frequencies.value[j] = freq_bins[i]

\* C25: when signal-informed planning returns, bin i is in the list if and
\* only if it is an interior bin whose power exceeds both neighbours, the
\* absolute threshold and twice the 10th-percentile power; in particular the
\* first and the last bin are never in it.  (When it raises instead, no bin
\* is a peak.)
C25_SelectsExactlyFilteredPeaks ==
    SignalPlanned =>
        LET P == Power
            percentile == Percentile10(P)
        IN  IF frequencies.kind = "ok"
            THEN /\ \A i \in 1..fft_size :
                      Selected(i) <=> (IsPeak(P, i) /\ PassesNoiseFilter(P, percentile, i))
                 /\ ~Selected(1) /\ ~Selected(fft_size)
                 /\ Len(frequencies.value) <= fft_size - 2
            ELSE \A i \in 1..fft_size : ~IsPeak(P, i)

\* C25 witness: planning returned the frequency of a peak; another interior
\* bin passes the noise filter but is no peak, and the first bin holds more
\* power than the peak: neither is in the list.
C25_Witness ==
    /\ SignalPlanned
    /\ frequencies.kind = "ok"
    /\ LET P == Power
           percentile == Percentile10(P)
       IN  \E i, k \in 2..(fft_size - 1) :
              /\ IsPeak(P, i) /\ Selected(i)
              /\ ~IsPeak(P, k) /\ PassesNoiseFilter(P, percentile, k) /\ ~Selected(k)
              /\ P[1] > P[i]
    /\ ~Selected(1)

\* The frequencies measured so far without a failure
UnitSucceeded == DOMAIN unit_calibration_data

\* C22: a unit calibration that has reached its frequencies ends only after
\* it has tried every one of them; if at least one succeeded it returns, and
\* its measurement map holds exactly the frequencies that did not fail.
C22_FrequencyFailureDoesNotAbort ==
    (unit_pc = "done" /\ unit_frequencies # <<>>) =>
        /\ \A i \in 1..Len(unit_frequencies) :
              unit_frequencies[i] \in UnitSucceeded \cup unit_failed
        /\ UnitSucceeded # {} =>
              /\ unit_return.kind = "ok"
              /\ DOMAIN unit_return.value.calibration_data =
                    {unit_frequencies[i] : i \in 1..Len(unit_frequencies)} \ unit_failed

\* The update loops that have been started and have not ended
ActiveLoops == {t \in Threads : update_thread[t] # "exited"}

\* C28: at most one update loop is active at any time.
C28_AtMostOneActiveLoop ==
    Cardinality(ActiveLoops) <= 1

\* C29: once is_running is false, either start_background_updates is called
\* again or every update loop eventually ends; while is_running is false no
\* loop begins a call of calibration_func, and each loop delivers at most the
\* one update it had in flight.
C29_StopEndsLoop ==
    /\ (~is_running) ~> (is_running \/ ActiveLoops = {})
    /\ [](\A t \in Threads :
            /\ ~begun_stopped[t]
            /\ delivered_stopped[t] <= 1)

\* C29 witness: a loop has ended after stop_background_updates, having
\* delivered after the stop the update it had in flight.
C29_Witness ==
    /\ ~is_running
    /\ started = 1
    /\ update_thread[1] = "exited"
    /\ delivered_stopped[1] = 1
    /\ updater_calibration_data = [new_data_of |-> 1]

====
